---------------------------- MODULE Spec2Model ----------------------------
(***************************************************************************)
(* Model of vite-plugin-wordpress-alias (src/vite-plugin-wordpress-alias.js)*)
(*                                                                         *)
(* A source text is a sequence of lexemes.  A lexeme is a run of           *)
(* characters that every pattern of the plugin treats as a unit: a         *)
(* punctuation character the patterns name ("/", ".", "(", a quote, a      *)
(* backslash, "=", ":"), a white-space character, or a word ("import",     *)
(* "src", "png", "@fonts", "localhost:5173").  The patterns of the plugin  *)
(* are kept as data (sequences of pattern elements); a match is the one    *)
(* the backtracking search of the JavaScript engine finds first: leftmost  *)
(* start, greedy quantifiers longest first, alternatives in order.         *)
(***************************************************************************)
EXTENDS Integers, Sequences, FiniteSets, TLC

VARIABLES
    devServerUrl,   \* options.devServerUrl, a text
    aliases,        \* options.aliases, the entries in Object.entries order
    source,         \* the module as written: its chunks, in order
    code,           \* the text handed to the transform hook (last, or next)
    type,           \* "css" or "js": the dialect the module id selected
    afterSrc,       \* `transformed` after the /src/ passes of the last call
    out,            \* what the last transform call produced
    round,          \* 0: no call yet, 1: a call on a fresh text,
                    \* 2..: a later call of the same plugin
    entries         \* Object.entries(aliases) as each call so far read it,
                    \* in the order of the calls

vars == <<devServerUrl, aliases, source, code, type, afterSrc, out, round,
          entries>>

-----------------------------------------------------------------------------
(* Lexemes *)

DQ == "\""
SQ == "'"
BS == "\\"
SP == " "
NL == "\n"

\* [...] and [^...] character classes, \s and .
Class(set) == [neg |-> FALSE, c |-> set]
NotClass(set) == [neg |-> TRUE, c |-> set]
Quote == Class({DQ, SQ})
NotQuote == NotClass({DQ, SQ})
NotQuoteBackslash == NotClass({DQ, SQ, BS})
NotParen == NotClass({")"})
Space == Class({SP, NL})
Dot == NotClass({NL})

InClass(cls, t) == IF cls.neg THEN t \notin cls.c ELSE t \in cls.c

-----------------------------------------------------------------------------
(* Pattern elements *)

Lit(s) == [k |-> "lit", s |-> s]           \* literal characters
One(cls) == [k |-> "one", c |-> cls]       \* one character of a class
Plus(cls) == [k |-> "plus", c |-> cls]     \* class+, greedy
Star(cls) == [k |-> "star", c |-> cls]     \* class*, greedy
Alt(a) == [k |-> "alt", a |-> a]           \* (x|y|...), literals, in order

Fail == <<-1>>

StartsWith(text, pos, s) ==
    /\ pos + Len(s) - 1 <= Len(text)
    /\ \A i \in 1..Len(s) : text[pos + i - 1] = s[i]

\* the number of consecutive lexemes of class cls from pos on
RunLen(text, pos, cls) ==
    LET stops == {j \in pos..Len(text) : ~InClass(cls, text[j])}
    IN IF stops = {} THEN Len(text) + 1 - pos
       ELSE (CHOOSE j \in stops : \A l \in stops : j <= l) - pos

\* the positions an element can end at when it begins at position p
Ends(e, text, p) ==
    CASE e.k = "lit" -> IF StartsWith(text, p, e.s) THEN {p + Len(e.s)} ELSE {}
      [] e.k = "one" ->
            IF p <= Len(text) /\ InClass(e.c, text[p]) THEN {p + 1} ELSE {}
      [] e.k = "plus" -> {p + j : j \in 1..RunLen(text, p, e.c)}
      [] e.k = "star" -> {p + j : j \in 0..RunLen(text, p, e.c)}
      [] e.k = "alt" ->
            {p + Len(e.a[i]) :
                i \in {j \in 1..Len(e.a) : StartsWith(text, p, e.a[j])}}

\* the end the search tries first among the ends in ok: a quantifier is
\* greedy (the longest run first), an alternation goes left to right
FirstEnd(e, text, p, ok) ==
    IF e.k = "alt"
    THEN LET i == CHOOSE j \in 1..Len(e.a) :
                    /\ StartsWith(text, p, e.a[j]) /\ p + Len(e.a[j]) \in ok
                    /\ \A l \in 1..(j - 1) :
                         ~(StartsWith(text, p, e.a[l]) /\ p + Len(e.a[l]) \in ok)
         IN p + Len(e.a[i])
    ELSE LET ends == Ends(e, text, p) \cap ok
         IN CHOOSE q \in ends : \A r \in ends : r <= q

RECURSIVE Reachable(_, _, _, _)
\* for each of the elements k.. of regex, the positions it can begin at in a
\* search that begins element k at one of the positions ps; last, the
\* positions after the last element
Reachable(regex, text, k, ps) ==
    IF k > Len(regex) THEN <<ps>>
    ELSE <<ps>> \o Reachable(regex, text, k + 1,
                              UNION {Ends(regex[k], text, p) : p \in ps})

RECURSIVE Completable(_, _, _, _, _)
\* ok holds, for each of the elements after k and last for the end of regex,
\* the positions of reach from which the elements from that one on match; the
\* result holds them for each of the elements of regex, and begins with {}
\* when the elements from some element on match from no position of reach
Completable(regex, text, k, reach, ok) ==
    IF k = 0 \/ ok[1] = {} THEN ok
    ELSE Completable(regex, text, k - 1, reach,
            <<{p \in reach[k] : Ends(regex[k], text, p) \cap ok[1] # {}}>> \o ok)

RECURSIVE MatchFrom(_, _, _, _, _)
\* Elements k.. of regex matched against text from position pos on, a
\* position the elements match from (ok[k] holds it): the position after
\* each of these elements in the first match the backtracking search finds,
\* which takes at each element the first end after which the rest matches
MatchFrom(regex, text, k, pos, ok) ==
    IF k > Len(regex) THEN <<>>
    ELSE LET q == FirstEnd(regex[k], text, pos, ok[k + 1])
         IN <<q>> \o MatchFrom(regex, text, k + 1, q, ok)

-----------------------------------------------------------------------------
(* Replacement callbacks: a template of parts *)

T(s) == [p |-> "lit", s |-> s]                      \* literal text
G(from, to) == [p |-> "grp", from |-> from, to |-> to] \* elements from..to
Url == [p |-> "url"]                                \* ${devServerUrl}
Path == [p |-> "path"]                              \* ${path} of the alias

\* the text elements from..to of a match matched
Group(text, start, ends, from, to) ==
    SubSeq(text, IF from = 1 THEN start ELSE ends[from - 1], ends[to] - 1)

RECURSIVE Render(_, _, _, _, _, _, _)
Render(rep, i, text, start, ends, base, path) ==
    IF i > Len(rep) THEN <<>>
    ELSE LET part == rep[i]
             s == CASE part.p = "lit" -> part.s
                    [] part.p = "grp" -> Group(text, start, ends, part.from, part.to)
                    [] part.p = "url" -> base
                    [] part.p = "path" -> path
         IN s \o Render(rep, i + 1, text, start, ends, base, path)

\* can a match of an element begin with the lexeme t
CanStart(e, t) ==
    CASE e.k = "lit" -> e.s = <<>> \/ e.s[1] = t
      [] e.k = "one" -> InClass(e.c, t)
      [] e.k = "plus" -> InClass(e.c, t)
      [] OTHER -> TRUE

\* the leftmost match of regex from position i on: its start followed by the
\* position after each element, or Fail.  Only a position whose lexeme can
\* begin the first element is tried.
FindMatch(regex, text, i) ==
    LET starts == {j \in i..Len(text) : CanStart(regex[1], text[j])}
        reach == Reachable(regex, text, 1, starts)
        ok == Completable(regex, text, Len(regex), reach,
                          <<reach[Len(regex) + 1]>>)
    IN IF starts = {} \/ ok[1] = {} THEN Fail
       ELSE LET start == CHOOSE j \in ok[1] : \A l \in ok[1] : j <= l
            IN <<start>> \o MatchFrom(regex, text, 1, start, ok)

RECURSIVE ReplaceFrom(_, _, _, _, _, _)
\* String.prototype.replace(regex, callback) with the g flag, from position i
\* on, m the leftmost match from there: the text up to the match is kept, the
\* match is replaced by what the callback returns, and the search goes on
\* after the match
ReplaceFrom(pattern, text, i, m, base, path) ==
    IF m = Fail THEN SubSeq(text, i, Len(text))
    ELSE LET after == m[Len(m)]
         IN SubSeq(text, i, m[1] - 1)
            \o Render(pattern.replacement, 1, text, m[1], Tail(m), base, path)
            \o ReplaceFrom(pattern, text, after,
                           FindMatch(pattern.regex, text, after), base, path)

-----------------------------------------------------------------------------
(* The patterns of transformAliases *)

SrcRoot == <<"/", "src", "/">>

\* srcPatterns: the /src/ passes of the css branch
CssEscaped ==
    [regex |-> <<Lit(<<"url", "(", BS>>), One(Quote), Lit(SrcRoot),
                 Plus(NotQuoteBackslash), Lit(<<BS>>), One(Quote), Lit(<<")">>)>>,
     replacement |-> <<T(<<"url", "(", BS>>), G(2, 2), Url, G(3, 4),
                       T(<<BS>>), G(6, 6), T(<<")">>)>>]

CssQuoted ==
    [regex |-> <<Lit(<<"url", "(">>), One(Quote), Lit(SrcRoot), Plus(NotQuote),
                 One(Quote), Lit(<<")">>)>>,
     replacement |-> <<T(<<"url", "(">>), G(2, 2), Url, G(3, 4), G(5, 5),
                       T(<<")">>)>>]

CssUnquoted ==
    [regex |-> <<Lit(<<"url", "(">>), Lit(SrcRoot), Plus(NotParen), Lit(<<")">>)>>,
     replacement |-> <<T(<<"url", "(">>), Url, G(2, 3), T(<<")">>)>>]

srcPatterns == <<CssEscaped, CssQuoted, CssUnquoted>>

\* aliasRegexes: the two passes of one alias entry of the css branch.  The
\* alias is embedded with its special characters escaped: it matches literally.
CssAliasQuoted(alias) ==
    [regex |-> <<Lit(<<"url", "(">>), One(Quote), Lit(alias), Lit(<<"/">>),
                 Plus(NotQuote), One(Quote), Lit(<<")">>)>>,
     replacement |-> <<T(<<"url", "(">>), G(2, 2), Url, Path, T(<<"/">>),
                       G(5, 5), G(6, 6), T(<<")">>)>>]

CssAliasUnquoted(alias) ==
    [regex |-> <<Lit(<<"url", "(">>), Lit(alias), Lit(<<"/">>), Plus(NotParen),
                 Lit(<<")">>)>>,
     replacement |-> <<T(<<"url", "(">>), Url, Path, T(<<"/">>), G(4, 4),
                       T(<<")">>)>>]

aliasRegexes(alias) == <<CssAliasQuoted(alias), CssAliasUnquoted(alias)>>

\* 'svg|png|jpg|jpeg|gif|webp|woff|woff2|ttf|otf|eot|mp4|webm|ogg'
\* assetExtensions with the extension of a data file among the alternatives
assetExtensionsWithJson ==
    <<<<"svg">>, <<"png">>, <<"jpg">>, <<"jpeg">>, <<"gif">>, <<"webp">>,
      <<"woff">>, <<"woff", "2">>, <<"ttf">>, <<"otf">>, <<"eot">>, <<"mp4">>,
      <<"webm">>, <<"ogg">>, <<"json">>>>

assetExtensions ==
    <<<<"svg">>, <<"png">>, <<"jpg">>, <<"jpeg">>, <<"gif">>, <<"webp">>,
      <<"woff">>, <<"woff", "2">>, <<"ttf">>, <<"otf">>, <<"eot">>, <<"mp4">>,
      <<"webm">>, <<"ogg">>>>

\* (src|href|poster|data) and (backgroundImage|src|...|background): one of
\* these words
AttributeName == Class({"src", "href", "poster", "data"})
PropertyName ==
    Class({"backgroundImage", "src", "href", "poster", "image", "icon", "logo",
           "avatar", "thumbnail", "background"})

\* jsPatterns: the /src/ passes of the js branch
JsImport ==
    [regex |-> <<Lit(<<"import">>), Plus(Space), Plus(Dot), Plus(Space),
                 Lit(<<"from">>), Plus(Space), One(Quote), Lit(SrcRoot),
                 Plus(NotQuote), Lit(<<".">>), Alt(assetExtensions), One(Quote)>>,
     replacement |-> <<G(1, 7), Url, G(8, 11), G(12, 12)>>]

JsDynamicImport ==
    [regex |-> <<Lit(<<"import">>), Star(Space), Lit(<<"(">>), Star(Space),
                 One(Quote), Lit(SrcRoot), Plus(NotQuote), Lit(<<".">>),
                 Alt(assetExtensions), One(Quote)>>,
     replacement |-> <<G(1, 5), Url, G(6, 9), G(10, 10)>>]

JsAttribute ==
    [regex |-> <<One(AttributeName),
                 Star(Space), Lit(<<"=">>), Star(Space), One(Quote),
                 Lit(SrcRoot), Plus(NotQuote), Lit(<<".">>),
                 Alt(assetExtensions), One(Quote)>>,
     replacement |-> <<G(1, 1), G(2, 5), Url, G(6, 9), G(10, 10)>>]

JsProperty ==
    [regex |-> <<One(PropertyName),
                 Star(Space), Lit(<<":">>), Star(Space), One(Quote),
                 Lit(SrcRoot), Plus(NotQuote), Lit(<<".">>),
                 Alt(assetExtensions), One(Quote)>>,
     replacement |-> <<G(1, 1), G(2, 5), Url, G(6, 9), G(10, 10)>>]

jsPatterns == <<JsImport, JsDynamicImport, JsAttribute, JsProperty>>

\* aliasJsPatterns: the one pass of one alias entry of the js branch
JsAliasImport(alias) ==
    [regex |-> <<Lit(<<"import">>), Plus(Space), Plus(Dot), Plus(Space),
                 Lit(<<"from">>), Plus(Space), One(Quote), Lit(alias),
                 Lit(<<"/">>), Plus(NotQuote), Lit(<<".">>),
                 Alt(assetExtensions), One(Quote)>>,
     replacement |-> <<G(1, 7), Url, Path, T(<<"/">>), G(10, 12), G(13, 13)>>]

\* aliasJsPatterns with a pass for the dynamic import of an alias path
aliasJsPatternsWithDynamic(alias) ==
    <<JsAliasImport(alias),
      [regex |-> <<Lit(<<"import">>), Star(Space), Lit(<<"(">>), Star(Space),
                   One(Quote), Lit(alias), Lit(<<"/">>), Plus(NotQuote),
                   Lit(<<".">>), Alt(assetExtensions), One(Quote)>>,
       replacement |-> <<G(1, 5), Url, Path, T(<<"/">>), G(8, 10), G(11, 11)>>]>>

aliasJsPatterns(alias) == <<JsAliasImport(alias)>>

-----------------------------------------------------------------------------
(* transformAliases *)

\* a value of the aliases object: a string (its characters) or something else
Str(chars) == [isString |-> TRUE, chars |-> chars]
NotAString == [isString |-> FALSE, chars |-> <<>>]
Entry(alias, target) == [alias |-> alias, path |-> target]

\* path.startsWith('/') ? path : `/${path}`
LeadingSlash(chars) ==
    IF Len(chars) > 0 /\ chars[1] = "/" THEN chars ELSE <<"/">> \o chars

\* Object.entries(aliases).map(...): path.startsWith is no function of a value
\* that is no string, and the call throws
AliasThrows(als) == \E i \in 1..Len(als) : ~als[i].path.isString

aliasPatterns(als) ==
    [i \in 1..Len(als) |->
        [alias |-> als[i].alias, path |-> LeadingSlash(als[i].path.chars)]]

\* if (transformed.match(regex)) transformed = transformed.replace(regex, fn):
\* the callback sets hasChanges at every match it replaces
ApplyPattern(st, pattern, base, path) ==
    LET first == FindMatch(pattern.regex, st.transformed, 1)
    IN [hasChanges |-> st.hasChanges \/ first # Fail,
        transformed |->
            IF first = Fail THEN st.transformed
            ELSE ReplaceFrom(pattern, st.transformed, 1, first, base, path)]

RECURSIVE ApplyPatterns(_, _, _, _, _)
\* for (const pattern of patterns) ..., from the i-th pattern on
ApplyPatterns(patterns, i, st, base, path) ==
    IF i > Len(patterns) \/ st.transformed = <<>> THEN st
    ELSE ApplyPatterns(patterns, i + 1,
                       ApplyPattern(st, patterns[i], base, path), base, path)

RECURSIVE ApplyAliases(_, _, _, _, _)
\* for (const { alias, path } of aliasPatterns) ..., from the i-th entry on
ApplyAliases(typ, aps, i, st, base) ==
    IF i > Len(aps) THEN st
    ELSE LET passes == IF typ = "css" THEN aliasRegexes(aps[i].alias)
                       ELSE aliasJsPatterns(aps[i].alias)
         IN ApplyAliases(typ, aps, i + 1,
                         ApplyPatterns(passes, 1, st, base, aps[i].path), base)

\* `transformed` and `hasChanges` after the /src/ loop of the branch
AfterSrcPatterns(text, typ, base) ==
    ApplyPatterns(IF typ = "css" THEN srcPatterns ELSE jsPatterns, 1,
                  [transformed |-> text, hasChanges |-> FALSE], base, <<>>)

\* transformAliases without the test of hasChanges before it returns
transformAliasesAlwaysCode(text, typ, base, als) ==
    IF AliasThrows(als)
    THEN [threw |-> TRUE, changed |-> FALSE, code |-> text, afterSrc |-> text]
    ELSE LET mid == AfterSrcPatterns(text, typ, base)
             st == ApplyAliases(typ, aliasPatterns(als), 1, mid, base)
         IN [threw |-> FALSE, changed |-> TRUE, code |-> st.transformed,
             afterSrc |-> mid.transformed]

\* the call: threw, or { code, map: null } (changed), or null (not changed;
\* the caller keeps the text it passed).  afterSrc records `transformed` as
\* the /src/ loop left it.
transformAliases(text, typ, base, als) ==
    IF AliasThrows(als)
    THEN [threw |-> TRUE, changed |-> FALSE, code |-> text, afterSrc |-> text]
    ELSE LET mid == AfterSrcPatterns(text, typ, base)
             st == ApplyAliases(typ, aliasPatterns(als), 1, mid, base)
         IN [threw |-> FALSE, changed |-> st.hasChanges,
             code |-> IF st.hasChanges THEN st.transformed ELSE text,
             afterSrc |-> mid.transformed]

-----------------------------------------------------------------------------
(* The transform hook *)

\* id.match(/\.(css|scss|sass|less|styl)($|\?)/), id.match(/\.(js|jsx|ts|tsx|vue)($|\?)/):
\* a module id is its last extension (a query string after it is ignored)
isCss(id) == id \in {"css", "scss", "sass", "less", "styl"}
isJs(id) == id \in {"js", "jsx", "ts", "tsx", "vue"}

FileType(id) == IF isCss(id) THEN "css" ELSE IF isJs(id) THEN "js" ELSE "none"

\* transform(code, id): what the hook hands back to Vite
transform(text, id, base, als) ==
    IF FileType(id) = "none"
    THEN [threw |-> FALSE, changed |-> FALSE, code |-> text, afterSrc |-> text]
    ELSE transformAliases(text, FileType(id), base, als)

-----------------------------------------------------------------------------
(* Inputs *)

MaxChunks == 2      \* a source text holds at most this many chunks
MaxRounds == 2      \* a text is handed back to the hook at most this often

LocalHost == <<"http:", "/", "/", "localhost:5173">>    \* the default
OtherHost == <<"https:", "/", "/", "wp.test:3000", "/">>

Fonts == <<"@fonts">>
FontsDir == <<"/", "src", "/", "assets", "/", "fonts">>
\* /Users/dev/project/src/assets/fonts
FontsAbs == <<"/", "Users", "/", "dev", "/", "project">> \o FontsDir
\* assets/fonts
FontsRel == <<"assets", "/", "fonts">>

\* the options a plugin is built with
Options ==
    {[devServerUrl |-> LocalHost, aliases |-> a] : a \in
        { <<>>,
          <<Entry(Fonts, Str(FontsDir))>>,
          <<Entry(Fonts, Str(FontsAbs))>>,
          <<Entry(Fonts, NotAString)>>,
          <<Entry(<<>>, Str(FontsDir))>>,
          <<Entry(<<"http:">>, Str(FontsDir))>>,
          <<Entry(<<"http:">>, Str(FontsDir)), Entry(Fonts, Str(FontsRel))>>,
          <<Entry(Fonts, Str(FontsRel)), Entry(<<"http:">>, Str(FontsDir))>> }}
    \cup
    {[devServerUrl |-> OtherHost, aliases |-> <<Entry(Fonts, Str(FontsDir))>>]}

\* A chunk of a module: a reference (its form, its quote character, what its
\* path starts with, the file it names) or other text
Ref(form, q, kind, alias, name, ext) ==
    [form |-> form, q |-> q, kind |-> kind, alias |-> alias, name |-> name,
     ext |-> ext]
Other(lexemes) == Ref("text", "", "none", <<>>, lexemes, <<>>)

\* /src/<file>, <alias>/<file>, /public/<file>
PathOf(c) ==
    LET file == c.name \o <<".">> \o c.ext
    IN CASE c.kind = "src" -> SrcRoot \o file
         [] c.kind = "alias" -> c.alias \o <<"/">> \o file
         [] c.kind = "public" -> <<"/", "public", "/">> \o file

\* the text of a reference of this form and quote around the path p
Wrap(c, p) ==
    CASE c.form = "text" -> c.name
      \* url("p"), url('p')
      [] c.form = "url" -> <<"url", "(", c.q>> \o p \o <<c.q, ")">>
      \* url(\"p\"), url(\'p\')
      [] c.form = "urlEscaped" -> <<"url", "(", BS, c.q>> \o p \o <<BS, c.q, ")">>
      \* url(p)
      [] c.form = "urlBare" -> <<"url", "(">> \o p \o <<")">>
      \* import a from 'p';
      [] c.form = "import" ->
            <<"import", SP, "a", SP, "from", SP, c.q>> \o p \o <<c.q, ";">>
      \* import('p')
      [] c.form = "call" -> <<"import", "(", c.q>> \o p \o <<c.q, ")">>
      \* el.src = "p"
      [] c.form = "attribute" ->
            <<"el", ".", "src", SP, "=", SP, c.q>> \o p \o <<c.q>>
      \* icon: 'p'
      [] c.form = "property" -> <<"icon", ":", SP, c.q>> \o p \o <<c.q>>
      \* const bgImage = 'p';
      [] c.form = "constant" ->
            <<"const", SP, "bgImage", SP, "=", SP, c.q>> \o p \o <<c.q, ";">>

TextOf(c) == IF c.form = "text" THEN c.name ELSE Wrap(c, PathOf(c))

RECURSIVE Flatten(_)
\* the text of a module
Flatten(chunks) ==
    IF chunks = <<>> THEN <<>> ELSE TextOf(Head(chunks)) \o Flatten(Tail(chunks))

CssChunks ==
    { Ref("url", DQ, "src", <<>>, <<"a">>, <<"png">>),
      Ref("urlEscaped", SQ, "src", <<>>, <<"a">>, <<"png">>),
      Ref("urlBare", "", "src", <<>>, <<"a">>, <<"png">>),
      Ref("url", SQ, "alias", Fonts, <<"custom-font">>, <<"woff", "2">>),
      Ref("urlBare", "", "alias", Fonts, <<"custom-font">>, <<"woff", "2">>),
      Ref("url", DQ, "public", <<>>, <<"logo">>, <<"png">>),
      Other(<<";", NL>>) }

JsChunks ==
    { Ref("import", SQ, "src", <<>>, <<"a">>, <<"png">>),
      Ref("call", SQ, "src", <<>>, <<"f">>, <<"woff", "2">>),
      Ref("attribute", DQ, "src", <<>>, <<"a">>, <<"png">>),
      Ref("property", SQ, "src", <<>>, <<"a">>, <<"png">>),
      Ref("import", SQ, "alias", Fonts, <<"custom-font">>, <<"woff", "2">>),
      Ref("call", SQ, "alias", Fonts, <<"custom-font">>, <<"woff", "2">>),
      Ref("attribute", DQ, "alias", Fonts, <<"custom-font">>, <<"woff", "2">>),
      Ref("property", SQ, "alias", Fonts, <<"custom-font">>, <<"woff", "2">>),
      Ref("import", SQ, "src", <<>>, <<"data", "/", "config">>, <<"json">>),
      Ref("import", SQ, "src", <<>>, <<"a">>, <<"PNG">>),
      Ref("import", SQ, "public", <<>>, <<"logo">>, <<"png">>),
      Ref("constant", SQ, "src", <<>>, <<"assets", "/", "images", "/", "bg">>, <<"jpg">>),
      Other(<<NL>>) }

RECURSIVE SourcesUpTo(_, _)
\* the modules of at most n chunks
SourcesUpTo(chunks, n) ==
    IF n = 0 THEN {<<>>}
    ELSE LET shorter == SourcesUpTo(chunks, n - 1)
         IN shorter \cup {Append(s, c) : s \in shorter, c \in chunks}

CssSources == SourcesUpTo(CssChunks, MaxChunks)
JsSources == SourcesUpTo(JsChunks, MaxChunks)

\* the module ids, and the modules of an id
Ids == {"scss", "js", "svg"}

SourcesOf(id) ==
    IF isJs(id) THEN JsSources
    ELSE IF isCss(id) THEN CssSources
    ELSE {<<c>> : c \in CssChunks}

-----------------------------------------------------------------------------
(* The plugin as a state machine *)

\* wordpressAlias(options): the plugin object, and a module Vite is about to
\* hand to its transform hook
Init ==
    /\ \E o \in Options :
        /\ devServerUrl = o.devServerUrl
        /\ aliases = o.aliases
    /\ \E id \in Ids :
        /\ type = FileType(id)
        /\ source \in SourcesOf(id)
    /\ code = Flatten(source)
    /\ afterSrc = <<>>
    /\ out = [threw |-> FALSE, changed |-> FALSE, code |-> <<>>]
    /\ round = 0
    /\ entries = <<>>

\* transform(text, id) with aliasPatterns built by the first call of the
\* plugin and kept for the later ones
CallWithFirstEntries(text, id) ==
    \E r \in {transform(text, id, devServerUrl,
                        IF entries = <<>> THEN aliases ELSE entries[1])} :
        /\ code' = text
        /\ type' = FileType(id)
        /\ afterSrc' = r.afterSrc
        /\ out' = [threw |-> r.threw, changed |-> r.changed, code |-> r.code]
        /\ entries' = Append(entries, aliases)
        /\ UNCHANGED <<devServerUrl, aliases, source>>

\* transform(text, id) of the plugin
Call(text, id) ==
    \E r \in {transform(text, id, devServerUrl, aliases)} :
        /\ code' = text
        /\ type' = FileType(id)
        /\ afterSrc' = r.afterSrc
        /\ out' = [threw |-> r.threw, changed |-> r.changed, code |-> r.code]
        /\ entries' = Append(entries, aliases)
        /\ UNCHANGED <<devServerUrl, aliases, source>>

\* Vite hands the module to the hook
Transform ==
    /\ round = 0
    /\ \E id \in Ids :
        /\ FileType(id) = type
        /\ Call(code, id)
    /\ round' = 1

\* the text the hook rewrote is handed to it again, under the same module id
Retransform ==
    /\ round >= 1
    /\ round < MaxRounds
    /\ out.changed
    /\ \E id \in Ids :
        /\ FileType(id) = type
        /\ Call(out.code, id)
    /\ round' = round + 1

Next == Transform \/ Retransform

Spec == Init /\ [][Next]_vars

-----------------------------------------------------------------------------
(* The plugin and the owner of the alias mapping *)

\* The plugin keeps the object it was given as options.aliases and reads its
\* entries at every call; the owner of the object changes it between two
\* calls.

\* aliases[alias] = path: a key the object holds keeps its place, a new key
\* comes last in Object.entries
Assign(als, e) ==
    IF \E i \in 1..Len(als) : als[i].alias = e.alias
    THEN [i \in 1..Len(als) |-> IF als[i].alias = e.alias THEN e ELSE als[i]]
    ELSE Append(als, e)

\* delete aliases[alias], for the i-th key
Remove(als, i) == SubSeq(als, 1, i - 1) \o SubSeq(als, i + 1, Len(als))

\* the entries the owner assigns
Assigned == {Entry(Fonts, Str(FontsDir)), Entry(Fonts, Str(FontsRel))}

\* an entry is added, or the target of an entry is changed
SetAlias ==
    /\ round >= 1
    /\ round < MaxRounds
    /\ \E e \in Assigned :
        /\ aliases' = Assign(aliases, e)
        /\ aliases' # aliases
    /\ UNCHANGED <<devServerUrl, source, code, type, afterSrc, out, round,
                   entries>>

\* an entry is removed
DeleteAlias ==
    /\ round >= 1
    /\ round < MaxRounds
    /\ \E i \in 1..Len(aliases) : aliases' = Remove(aliases, i)
    /\ UNCHANGED <<devServerUrl, source, code, type, afterSrc, out, round,
                   entries>>

\* the mapping is replaced wholesale: every key removed, the keys of another
\* configuration assigned
ReplaceAliases ==
    /\ round >= 1
    /\ round < MaxRounds
    /\ \E o \in Options :
        /\ aliases' = o.aliases
        /\ aliases' # aliases
    /\ UNCHANGED <<devServerUrl, source, code, type, afterSrc, out, round,
                   entries>>

\* Vite hands the module as written to the hook again (the module is
\* requested again)
TransformAgain ==
    /\ round >= 1
    /\ round < MaxRounds
    /\ \E id \in Ids :
        /\ FileType(id) = type
        /\ Call(Flatten(source), id)
    /\ round' = round + 1

NextReconfigured ==
    \/ Transform
    \/ Retransform
    \/ TransformAgain
    \/ SetAlias
    \/ DeleteAlias
    \/ ReplaceAliases

SpecReconfigured == Init /\ [][NextReconfigured]_vars

-----------------------------------------------------------------------------
(* What the documentation says of a module and of the options *)

\* text holds the lexemes s, one after the other, somewhere
Occurs(s, text) == \E i \in 1..(Len(text) + 1) : StartsWith(text, i, s)

\* how often text holds the lexemes s
Count(s, text) == Cardinality({i \in 1..Len(text) : StartsWith(text, i, s)})

\* the options hold string targets only
WellTyped(als) == \A i \in 1..Len(als) : als[i].path.isString

\* an entry is malformed: its target is no string, or its token is empty
Malformed(e) == ~e.path.isString \/ e.alias = <<>>

\* no entry is malformed and no alias token is part of the base URL
Ordinary(als, base) ==
    \A i \in 1..Len(als) : ~Malformed(als[i]) /\ ~Occurs(als[i].alias, base)

\* the alias mapping without its malformed entries
WellFormedOnly(als) == SelectSeq(als, LAMBDA e : ~Malformed(e))

\* the web-root-relative path of a target: kept from the /src/ segment on if
\* it holds one, else with a leading "/"
WebRootPath(chars) ==
    IF Occurs(SrcRoot, chars)
    THEN LET i == CHOOSE j \in 1..Len(chars) :
                    /\ StartsWith(chars, j, SrcRoot)
                    /\ \A k \in 1..(j - 1) : ~StartsWith(chars, k, SrcRoot)
         IN SubSeq(chars, i, Len(chars))
    ELSE IF chars # <<>> /\ chars[1] = "/" THEN chars
    ELSE <<"/">> \o chars

\* the extensions the script dialect accepts
EligibleExtensions ==
    { <<"svg">>, <<"png">>, <<"jpg">>, <<"jpeg">>, <<"gif">>, <<"webp">>,
      <<"woff">>, <<"woff", "2">>, <<"ttf">>, <<"otf">>, <<"eot">>, <<"mp4">>,
      <<"webm">>, <<"ogg">> }

IsRef(c) == c.form # "text"

\* is the alias of a chunk configured, and the target of its entry
Configured(c, als) == \E i \in 1..Len(als) : als[i].alias = c.alias
TargetOf(c, als) ==
    als[CHOOSE i \in 1..Len(als) : als[i].alias = c.alias].path.chars

\* the passes of a dialect that rewrite a reference of this form
AbsoluteForm(c, typ) ==
    IF typ = "css" THEN c.form \in {"url", "urlEscaped", "urlBare"}
    ELSE c.form \in {"import", "call", "attribute", "property"}
            /\ c.ext \in EligibleExtensions
AliasForm(c, typ) ==
    IF typ = "css" THEN c.form \in {"url", "urlBare"}
    ELSE c.form = "import" /\ c.ext \in EligibleExtensions

\* the chunk as the rewrite rules of the dialect leave it
Documented(c, typ, base, als) ==
    CASE c.kind = "src" /\ AbsoluteForm(c, typ) -> Wrap(c, base \o PathOf(c))
      [] c.kind = "alias" /\ AliasForm(c, typ) /\ Configured(c, als) ->
            Wrap(c, base \o WebRootPath(TargetOf(c, als)) \o <<"/">>
                    \o c.name \o <<".">> \o c.ext)
      [] OTHER -> TextOf(c)

RECURSIVE DocumentedText(_, _, _, _)
DocumentedText(chunks, typ, base, als) ==
    IF chunks = <<>> THEN <<>>
    ELSE Documented(Head(chunks), typ, base, als)
         \o DocumentedText(Tail(chunks), typ, base, als)

\* a first call of the hook on the module as written has returned
FirstCall(typ) == round = 1 /\ type = typ

-----------------------------------------------------------------------------
(* The claims *)

\* C1: idempotence.  A call on the text an earlier call of the same plugin
\* rewrote (same dialect, base URL and aliases) reports no change.
C1_Idempotent == round >= 2 => ~out.changed

\* C2: the stylesheet rewrite rule.  A first call on a stylesheet returns the
\* module with every url(...) reference of a recognized shape replaced by the
\* same construct around the base URL and the resolved path (the /src/ path
\* itself, or the web-root-relative path of the alias target, "/" and the
\* rest), and reports a change when there is such a reference.
C2_StylesheetRule ==
    (FirstCall("css") /\ Ordinary(aliases, devServerUrl)) =>
        /\ out.code = DocumentedText(source, "css", devServerUrl, aliases)
        /\ (\E i \in 1..Len(source) :
                Documented(source[i], "css", devServerUrl, aliases)
                    # TextOf(source[i]))
            => out.changed

\* C3: the script rewrite rule.  A first call on a script returns the module
\* with every static import, dynamic import, attribute assignment and listed
\* property of an eligible /src/ path prefixed with the base URL, every static
\* import of an eligible alias path resolved, and all other text as it was.
C3_ScriptRule ==
    (FirstCall("js") /\ Ordinary(aliases, devServerUrl)) =>
        out.code = DocumentedText(source, "js", devServerUrl, aliases)

\* C4: malformed alias entries are inert.  With an entry whose target is no
\* string or whose token is empty, a call of either dialect does not throw
\* and returns what it returns without that entry.
C4_MalformedInert ==
    (round = 1 /\ type # "none"
        /\ \E i \in 1..Len(aliases) : Malformed(aliases[i])) =>
        /\ ~out.threw
        /\ \E r \in {transformAliases(code, type, devServerUrl,
                                      WellFormedOnly(aliases))} :
                out.changed = r.changed /\ out.code = r.code

\* C5: alias normalization.  The path an alias reference is rewritten to is
\* the base URL, the web-root-relative path of the raw target (kept from its
\* /src/ segment on, else with a leading "/"), "/" and the rest.
C5_Normalization ==
    (round = 1 /\ type # "none" /\ Len(aliases) = 1 /\ WellTyped(aliases)
        /\ Len(source) = 1 /\ source[1].kind = "alias"
        /\ AliasForm(source[1], type) /\ Configured(source[1], aliases)) =>
        out.code = Wrap(source[1],
                        devServerUrl \o WebRootPath(aliases[1].path.chars)
                        \o <<"/">> \o source[1].name \o <<".">> \o source[1].ext)

\* the patterns of a call, in the order the call applies them
RECURSIVE AliasPasses(_, _, _)
AliasPasses(typ, als, i) ==
    IF i > Len(als) THEN <<>>
    ELSE (IF typ = "css" THEN aliasRegexes(als[i].alias)
          ELSE aliasJsPatterns(als[i].alias)) \o AliasPasses(typ, als, i + 1)
PassesOf(typ, als) ==
    (IF typ = "css" THEN srcPatterns ELSE jsPatterns) \o AliasPasses(typ, als, 1)

\* text holds no /src/ path and no alias token of the options
Irrelevant(text, als) ==
    /\ ~Occurs(SrcRoot, text)
    /\ \A i \in 1..Len(als) : ~Occurs(als[i].alias, text)

Ineligible(c, typ) ==
    IsRef(c) /\ (c.kind # "src" \/ (typ = "js" /\ c.ext \notin EligibleExtensions))

\* C7: eligibility of the /src/ passes.  In either dialect the /src/ passes
\* leave every reference alone whose path does not begin with /src/ and, in a
\* script, every reference whose path does not end in an eligible extension
\* (case-sensitive); with no alias and no other reference the call reports no
\* change.
C7_Eligibility ==
    (round = 1 /\ type # "none") =>
        /\ \A i \in 1..Len(source) :
                Ineligible(source[i], type) =>
                    Count(TextOf(source[i]), afterSrc)
                        = Count(TextOf(source[i]), code)
        /\ (aliases = <<>>
                /\ \A i \in 1..Len(source) :
                        ~IsRef(source[i]) \/ Ineligible(source[i], type))
            => (~out.changed /\ out.code = code)

\* reached: the /src/ passes rewrote a script module that also holds a /src/
\* path with an extension that is not eligible
C7_Witness ==
    /\ FirstCall("js")
    /\ afterSrc # code
    /\ \E i \in 1..Len(source) :
            /\ Ineligible(source[i], "js")
            /\ source[i].kind = "src"
            /\ Occurs(TextOf(source[i]), afterSrc)

\* C8: a quoted /src/ asset path assigned to a variable in a script, as in
\* const bgImage = '/src/assets/images/bg.jpg';, is rewritten to the base URL form.
C8_StringLiteral ==
    (FirstCall("js") /\ WellTyped(aliases) /\ Len(source) = 1
        /\ source[1].form = "constant") =>
        /\ out.changed
        /\ out.code = Wrap(source[1], devServerUrl \o PathOf(source[1]))

\* an alias path in a dynamic import, an attribute or a property
Protected(c) == c.kind = "alias" /\ c.form \in {"call", "attribute", "property"}

\* C9: script alias asymmetry.  A call on a script leaves every alias path in
\* a dynamic import, an attribute assignment or a property value as it was,
\* whatever aliases are configured.
C9_AliasAsymmetry ==
    FirstCall("js") =>
        \A i \in 1..Len(source) :
            Protected(source[i]) =>
                Count(TextOf(source[i]), out.code) = Count(TextOf(source[i]), code)

\* reached: a call resolved the static import of an alias path and left the
\* same alias path in another form of the same module
C9_Witness ==
    /\ FirstCall("js")
    /\ out.changed
    /\ \E i, j \in 1..Len(source) :
            /\ Protected(source[i]) /\ Configured(source[i], aliases)
            /\ source[j].form = "import" /\ source[j].kind = "alias"
            /\ ~Occurs(TextOf(source[j]), out.code)
            /\ Occurs(TextOf(source[i]), out.code)

\* a reference as it was, or rewritten by one pass
OnceOrNot(c, typ, base, als) ==
    {TextOf(c)}
    \cup (IF c.kind = "src" THEN {Wrap(c, base \o PathOf(c))} ELSE {})
    \cup {Wrap(c, base \o LeadingSlash(als[i].path.chars) \o <<"/">>
                  \o c.name \o <<".">> \o c.ext) :
            i \in {j \in 1..Len(als) : c.kind = "alias" /\ als[j].alias = c.alias}}

RECURSIVE RewrittenOnce(_, _, _, _)
\* the texts of a module with each reference rewritten once or not at all
RewrittenOnce(chunks, typ, base, als) ==
    IF chunks = <<>> THEN {<<>>}
    ELSE {h \o t : h \in OnceOrNot(Head(chunks), typ, base, als),
                   t \in RewrittenOnce(Tail(chunks), typ, base, als)}

Reverse(s) == [i \in 1..Len(s) |-> s[Len(s) + 1 - i]]

\* C10: a path is rewritten at most once within one call, for any alias
\* tokens, and the result does not depend on the order of the alias entries.
C10_RewrittenOnce ==
    (round = 1 /\ type # "none"
        /\ \A i \in 1..Len(aliases) : ~Malformed(aliases[i])) =>
        /\ out.code \in RewrittenOnce(source, type, devServerUrl, aliases)
        /\ out.code = transformAliases(code, type, devServerUrl,
                                       Reverse(aliases)).code

\* the result of the first call of a plugin built with these options
FreshCall(text, typ, base, als) ==
    IF typ = "none"
    THEN [threw |-> FALSE, changed |-> FALSE, code |-> text]
    ELSE LET r == transformAliases(text, typ, base, als)
         IN [threw |-> r.threw, changed |-> r.changed, code |-> r.code]

=============================================================================
